---- MODULE Spec2Model ----
(***************************************************************************)
(* PPG signal analysis pipeline: the conditioner (preprocessing.py), the   *)
(* feature extractor (feature_extraction.py), the arrhythmia detector      *)
(* (arrhythmia_detection.py) and the dataset loop of main.py.              *)
(*                                                                         *)
(* Numbers.  A sample sequence is a record [num, den]: sample i has the    *)
(* value num[i] / den, den > 0.  Every other real number is a pair         *)
(* <<n, d>> with d > 0 (the rational n / d); None is <<>>.  Arithmetic is  *)
(* exact: the rounding of IEEE doubles is not modelled.  A standard        *)
(* deviation is kept as its square (the variance), and s > t is decided on *)
(* the squares.                                                            *)
(*                                                                         *)
(* Filters.  butter and filtfilt are modelled by what they raise; the      *)
(* samples filtfilt returns are not computed.  filtfilt is a function of   *)
(* its input whose value is any signal of the input's length.              *)
(*                                                                         *)
(* Indices.  Sequences are 1-based here and 0-based in Python; a Peak Set  *)
(* holds Python's 0-based sample indices, so sample p of x is x[p + 1].    *)
(***************************************************************************)
EXTENDS Integers, Sequences, FiniteSets, TLC

\* ------------------------------------------------------------ bounds
MaxLen == 4        \* longest sample sequence drawn sample by sample
MaxBeats == 4      \* most beats of a generated pulse train
MaxDatasets == 2   \* most datasets in the data folder

\* ------------------------------------------------------------ numbers
None == <<>>

RatLT(a, b) == a[1] * b[2] < b[1] * a[2]
RatEq(a, b) == a[1] * b[2] = b[1] * a[2]

RECURSIVE SumSeq(_)
SumSeq(s) == IF s = <<>> THEN 0 ELSE Head(s) + SumSeq(Tail(s))

SeqMin(s) == CHOOSE v \in {s[i] : i \in DOMAIN s} : \A i \in DOMAIN s : v <= s[i]
SeqMax(s) == CHOOSE v \in {s[i] : i \in DOMAIN s} : \A i \in DOMAIN s : v >= s[i]

FloorDiv(n, d) == n \div d
CeilDiv(n, d) == -((-n) \div d)

\* ------------------------------------------------------------ scipy.signal.find_peaks
NoHeight == <<>>
NoDistance == <<>>

\* _local_maxima_1d: the inner loop that skips a plateau
RECURSIVE PlateauEnd(_, _, _)
PlateauEnd(x, i, i_ahead) ==
    IF i_ahead < Len(x) - 1 /\ x[i_ahead + 1] = x[i + 1]
    THEN PlateauEnd(x, i, i_ahead + 1)
    ELSE i_ahead

\* _local_maxima_1d: the outer loop from sample i on; the first and the last
\* sample are never maxima, a plateau yields its midpoint
RECURSIVE local_maxima_from(_, _)
local_maxima_from(x, i) ==
    IF i >= Len(x) - 1 THEN <<>>
    ELSE IF x[i] < x[i + 1]
         THEN LET i_ahead == PlateauEnd(x, i, i + 1)
              IN  IF x[i_ahead + 1] < x[i + 1]
                  THEN <<(i + (i_ahead - 1)) \div 2>> \o local_maxima_from(x, i_ahead + 1)
                  ELSE local_maxima_from(x, i + 1)
         ELSE local_maxima_from(x, i + 1)

local_maxima_1d(x) == local_maxima_from(x, 1)

RECURSIVE SelectSeq2(_, _)
SelectSeq2(s, keep) ==
    IF s = <<>> THEN <<>>
    ELSE (IF keep[1] THEN <<Head(s)>> ELSE <<>>)
         \o SelectSeq2(Tail(s), Tail(keep))

\* _select_by_peak_distance: the peak of highest priority not yet visited
\* (np.argsort read backwards: of equal priorities the later peak comes
\* first, argsort being stable on the short arrays met here)
NextByPriority(priority, todo) ==
    CHOOSE j \in todo : \A k \in todo :
        priority[k] < priority[j] \/ (priority[k] = priority[j] /\ k <= j)

\* _select_by_peak_distance: visit the peaks by falling priority; a kept peak
\* drops every neighbour closer than distance_ (peaks is increasing, so the
\* two while loops drop exactly the peaks within that distance)
RECURSIVE SuppressFrom(_, _, _, _, _)
SuppressFrom(peaks, priority, distance_, todo, keep) ==
    IF todo = {} THEN keep
    ELSE LET j == NextByPriority(priority, todo)
             near == {k \in DOMAIN peaks :
                         /\ k # j
                         /\ (IF k < j THEN peaks[j] - peaks[k]
                                      ELSE peaks[k] - peaks[j]) < distance_}
         IN  SuppressFrom(peaks, priority, distance_, todo \ {j},
                          IF j \in keep THEN keep \ near ELSE keep)

select_by_peak_distance(peaks, priority, distance_) ==
    LET keep == SuppressFrom(peaks, priority, distance_, DOMAIN peaks, DOMAIN peaks)
    IN  [k \in DOMAIN peaks |-> k \in keep]

\* find_peaks raises ValueError when distance is given and below 1
find_peaks_raises(distance) == distance # NoDistance /\ RatLT(distance, <<1, 1>>)

\* find_peaks(x, height, distance) for a signal x = [num, den]; height and
\* distance are rationals or absent
find_peaks(x, height, distance) ==
    LET all == local_maxima_1d(x.num)
        byHeight == IF height = NoHeight THEN all
                    ELSE SelectSeq2(all, [k \in DOMAIN all |->
                            ~RatLT(<<x.num[all[k] + 1], x.den>>, height)])
        priority == [k \in DOMAIN byHeight |-> x.num[byHeight[k] + 1]]
    IN  IF distance = NoDistance THEN byHeight
        ELSE SelectSeq2(byHeight,
                 select_by_peak_distance(byHeight, priority,
                                      CeilDiv(distance[1], distance[2])))

Negate(x) == [num |-> [i \in DOMAIN x.num |-> -x.num[i]], den |-> x.den]

\* np.diff
Diff(s) == [i \in 1..(Len(s) - 1) |-> s[i + 1] - s[i]]

RECURSIVE GCD(_, _)
GCD(a, b) == IF b = 0 THEN a ELSE GCD(b, a % b)

\* n / d in lowest terms (d > 0, n >= 0)
Reduce(n, d) == LET g == GCD(n, d) IN <<n \div g, d \div g>>

RatAdd(a, b) == Reduce(a[1] * b[2] + b[1] * a[2], a[2] * b[2])

RECURSIVE RatSum(_)
RatSum(s) == IF s = <<>> THEN <<0, 1>> ELSE RatAdd(Head(s), RatSum(Tail(s)))

\* np.mean of a non-empty sequence of positive rationals
RatMean(s) == LET t == RatSum(s) IN Reduce(t[1], t[2] * Len(s))

\* ------------------------------------------------------------ call results
Raised(exc) == [ok |-> FALSE, exc |-> exc, val |-> None]
Returned(v) == [ok |-> TRUE, exc |-> "", val |-> v]

\* ------------------------------------------------------------ scipy.signal.butter, filtfilt
\* butter: a critical frequency outside 0 < Wn < 1 is a ValueError
butter_raises(Wn) ==
    \E i \in DOMAIN Wn : ~(RatLT(<<0, 1>>, Wn[i]) /\ RatLT(Wn[i], <<1, 1>>))

\* filtfilt: the default padlen is 3 * max(len(a), len(b)); an input no longer
\* than padlen is a ValueError.  ncoef is len(a) = len(b).
filtfilt_raises(x, ncoef) == Len(x.num) <= 3 * ncoef

\* ------------------------------------------------------------ feature_extraction.py
LOWCUT == <<1, 10>>
HIGHCUT == <<1, 2>>

\* calculate_heart_rate reporting 60 / mean(rr_intervals) as the mean rate
calculate_heart_rate_of_mean_rr(ppg_signal, sampling_rate) ==
    LET distance == <<sampling_rate * 3, 5>>
    IN  IF find_peaks_raises(distance) THEN Raised("ValueError: distance")
        ELSE LET peaks == find_peaks(ppg_signal, NoHeight, distance)
             IN  IF Len(peaks) < 2
                 THEN Returned([mean_heart_rate |-> None, heart_rates |-> <<>>])
                 ELSE LET d == Diff(peaks)
                          heart_rates == [i \in DOMAIN d |->
                                             Reduce(60 * sampling_rate, d[i])]
                      IN  Returned([mean_heart_rate |->
                                        Reduce(60 * Len(d) * sampling_rate, SumSeq(d)),
                                    heart_rates |-> heart_rates])

\* calculate_heart_rate(ppg_signal, sampling_rate)
calculate_heart_rate(ppg_signal, sampling_rate) ==
    LET distance == <<sampling_rate * 3, 5>>
    IN  IF find_peaks_raises(distance) THEN Raised("ValueError: distance")
        ELSE LET peaks == find_peaks(ppg_signal, NoHeight, distance)
             IN  IF Len(peaks) < 2
                 THEN Returned([mean_heart_rate |-> None, heart_rates |-> <<>>])
                 ELSE LET d == Diff(peaks)
                          heart_rates == [i \in DOMAIN d |->
                                             Reduce(60 * sampling_rate, d[i])]
                      IN  Returned([mean_heart_rate |-> RatMean(heart_rates),
                                    heart_rates |-> heart_rates])

\* calculate_respiratory_rate(ppg_signal, sampling_rate); respiratory_signal is
\* what filtfilt returns for ppg_signal
calculate_respiratory_rate(ppg_signal, sampling_rate, respiratory_signal) ==
    LET low == <<LOWCUT[1] * 2, LOWCUT[2] * sampling_rate>>
        high == <<HIGHCUT[1] * 2, HIGHCUT[2] * sampling_rate>>
    IN  IF butter_raises(<<low, high>>) THEN Raised("ValueError: Wn")
        ELSE IF filtfilt_raises(ppg_signal, 3) THEN Raised("ValueError: padlen")
        ELSE LET peaks == find_peaks(respiratory_signal, NoHeight,
                                    <<sampling_rate * 2, 1>>)
             IN  IF Len(peaks) < 2 THEN Returned(None)
                 ELSE LET d == Diff(peaks)
                      IN  Returned(Reduce(60 * Len(d) * sampling_rate, SumSeq(d)))

\* calculate_systolic_amplitude(ppg_signal)
calculate_systolic_amplitude(ppg_signal) ==
    LET systolic_peak == SeqMax(ppg_signal.num)
        baseline == SeqMin(ppg_signal.num)
    IN  <<systolic_peak - baseline, ppg_signal.den>>

\* calculate_signal_quality_metrics(ppg_signal).  With n samples x[i] / den and
\* S their sum, the noise is (n * x[i] - S) / (n * den).  Kurtosis and
\* skewness are kept only as finite or NaN (NaN for a signal of zero variance).
calculate_signal_quality_metrics(ppg_signal) ==
    LET x == ppg_signal.num
        n == Len(x)
        S == SumSeq(x)
        sq == SumSeq([i \in DOMAIN x |-> x[i] * x[i]])
        noise == SumSeq([i \in DOMAIN x |-> (n * x[i] - S) * (n * x[i] - S)])
        snr == IF noise > 0 THEN Reduce(sq * n * n, noise) ELSE <<0, 1>>
        moment == IF noise > 0 THEN "finite" ELSE "nan"
    IN  [snr |-> snr, kurt |-> moment, skewness |-> moment]

\* extract_features(ppg_signal, sampling_rate)
extract_features(ppg_signal, sampling_rate, respiratory_signal) ==
    LET heart_rate_data == calculate_heart_rate(ppg_signal, sampling_rate)
        respiratory_rate ==
            calculate_respiratory_rate(ppg_signal, sampling_rate, respiratory_signal)
        q == calculate_signal_quality_metrics(ppg_signal)
    IN  IF ~heart_rate_data.ok THEN Raised(heart_rate_data.exc)
        ELSE IF ~respiratory_rate.ok THEN Raised(respiratory_rate.exc)
        ELSE Returned([HeartRate |-> heart_rate_data.val.mean_heart_rate,
                       RespiratoryRate |-> respiratory_rate.val,
                       SystolicAmplitude |-> calculate_systolic_amplitude(ppg_signal),
                       SNR |-> q.snr,
                       Kurtosis |-> q.kurt,
                       Skewness |-> q.skewness])

\* ------------------------------------------------------------ arrhythmia_detection.py
HeightThreshold == <<1, 2>>
MinDistanceFactor == <<2, 5>>
DefaultThresholdHeartRate == <<3, 20>>
DefaultThresholdWaveform == <<1, 5>>

\* calculate_rr_intervals calling find_peaks without the distance argument
calculate_rr_intervals_no_distance(ppg_signal, sampling_rate, height_threshold, min_distance_factor) ==
    LET peaks == find_peaks(ppg_signal, height_threshold, NoDistance)
        d == Diff(peaks)
    IN  Returned([rr_intervals |->
                      IF Len(peaks) > 1
                      THEN [i \in DOMAIN d |-> <<d[i], sampling_rate>>]
                      ELSE <<>>,
                  peaks |-> peaks])

\* calculate_rr_intervals(ppg_signal, sampling_rate, height_threshold,
\* min_distance_factor); int() truncates the distance
calculate_rr_intervals(ppg_signal, sampling_rate, height_threshold, min_distance_factor) ==
    LET distance == <<FloorDiv(sampling_rate * min_distance_factor[1],
                               min_distance_factor[2]), 1>>
    IN  IF find_peaks_raises(distance) THEN Raised("ValueError: distance")
        ELSE LET peaks == find_peaks(ppg_signal, height_threshold, distance)
                 d == Diff(peaks)
             IN  Returned([rr_intervals |->
                               IF Len(peaks) > 1
                               THEN [i \in DOMAIN d |-> <<d[i], sampling_rate>>]
                               ELSE <<>>,
                           peaks |-> peaks])

\* calculate_heart_rate(rr_intervals): 60 / mean(rr_intervals), 0 for none
calculate_heart_rate_from_rr(rr_intervals) ==
    IF Len(rr_intervals) = 0 THEN <<0, 1>>
    ELSE LET mean_rr_interval == RatMean(rr_intervals)
         IN  Reduce(60 * mean_rr_interval[2], mean_rr_interval[1])

\* np.std squared: mean((x - mean(x))^2) of rationals with one denominator r,
\* x[i] = d[i] / r: sum((n * d[i] - S)^2) / (n^3 * r^2)
Variance(rr_intervals) ==
    LET n == Len(rr_intervals)
        r == rr_intervals[1][2]
        S == SumSeq([i \in DOMAIN rr_intervals |-> rr_intervals[i][1]])
        dev == [i \in DOMAIN rr_intervals |-> n * rr_intervals[i][1] - S]
    IN  <<SumSeq([i \in DOMAIN dev |-> dev[i] * dev[i]]), n * n * n * r * r>>

\* detect_irregular_heart_rate with hrv >= threshold
detect_irregular_heart_rate_at_least(rr_intervals, threshold) ==
    IF Len(rr_intervals) = 0 THEN FALSE
    ELSE LET hrv2 == Variance(rr_intervals)
         IN  \/ threshold[1] < 0
             \/ ~RatLT(hrv2, <<threshold[1] * threshold[1], threshold[2] * threshold[2]>>)

\* detect_irregular_heart_rate(rr_intervals, threshold): hrv > threshold
detect_irregular_heart_rate(rr_intervals, threshold) ==
    IF Len(rr_intervals) = 0 THEN FALSE
    ELSE LET hrv2 == Variance(rr_intervals)
         IN  \/ threshold[1] < 0
             \/ RatLT(<<threshold[1] * threshold[1], threshold[2] * threshold[2]>>, hrv2)

\* detect_abnormal_waveform with diff >= threshold
detect_abnormal_waveform_at_least(ppg_signal, threshold) ==
    LET peaks == find_peaks(ppg_signal, NoHeight, NoDistance)
        valleys == find_peaks(Negate(ppg_signal), NoHeight, NoDistance)
        min_len == IF Len(peaks) < Len(valleys) THEN Len(peaks) ELSE Len(valleys)
    IN  \E i \in 1..min_len :
            ~RatLT(<<ppg_signal.num[peaks[i] + 1] - ppg_signal.num[valleys[i] + 1],
                     ppg_signal.den>>, threshold)

\* detect_abnormal_waveform(ppg_signal, threshold)
detect_abnormal_waveform(ppg_signal, threshold) ==
    LET peaks == find_peaks(ppg_signal, NoHeight, NoDistance)
        valleys == find_peaks(Negate(ppg_signal), NoHeight, NoDistance)
        min_len == IF Len(peaks) < Len(valleys) THEN Len(peaks) ELSE Len(valleys)
        peak_to_valley_diff ==
            [i \in 1..min_len |->
                <<ppg_signal.num[peaks[i] + 1] - ppg_signal.num[valleys[i] + 1],
                  ppg_signal.den>>]
    IN  IF min_len = 0 THEN FALSE
        ELSE \E i \in 1..min_len : RatLT(threshold, peak_to_valley_diff[i])

\* episode bounds set whenever two peaks exist, flagged or not
EpisodeBoundsAlways(irregular_heart_rate, peaks, sampling_rate) ==
    IF Len(peaks) > 1
    THEN <<Reduce(peaks[1], sampling_rate), Reduce(peaks[Len(peaks)], sampling_rate)>>
    ELSE <<None, None>>

\* the episode bounds of detect_arrhythmia
EpisodeBounds(irregular_heart_rate, peaks, sampling_rate) ==
    IF irregular_heart_rate /\ Len(peaks) > 1
    THEN <<Reduce(peaks[1], sampling_rate), Reduce(peaks[Len(peaks)], sampling_rate)>>
    ELSE <<None, None>>

\* detect_arrhythmia(ppg_signal, sampling_rate, threshold_heart_rate,
\* threshold_waveform) -> <<irregular_heart_rate, abnormal_waveform,
\* start_time, end_time>>
detect_arrhythmia(ppg_signal, sampling_rate, threshold_heart_rate, threshold_waveform) ==
    LET r == calculate_rr_intervals(ppg_signal, sampling_rate,
                                  HeightThreshold, MinDistanceFactor)
    IN  IF ~r.ok THEN Raised(r.exc)
        ELSE IF Len(r.val.rr_intervals) = 0 \/ Len(r.val.peaks) = 0
        THEN Returned(<<FALSE, FALSE, None, None>>)
        ELSE LET heart_rate == calculate_heart_rate_from_rr(r.val.rr_intervals)
                 irregular_heart_rate ==
                     detect_irregular_heart_rate(r.val.rr_intervals, threshold_heart_rate)
                 abnormal_waveform == detect_abnormal_waveform(ppg_signal, threshold_waveform)
                 t == EpisodeBounds(irregular_heart_rate, r.val.peaks, sampling_rate)
             IN  Returned(<<irregular_heart_rate, abnormal_waveform, t[1], t[2]>>)

\* ------------------------------------------------------------ preprocessing.py
\* preprocess_signal(df, sampling_rate, cutoff = 0.5); filtered_signal is what
\* filtfilt returns for the PPG column
preprocess_signal(ppg_signal, sampling_rate, filtered_signal) ==
    LET normal_cutoff == <<1, sampling_rate>>
    IN  IF butter_raises(<<normal_cutoff>>) THEN Raised("ValueError: Wn")
        ELSE IF filtfilt_raises(ppg_signal, 6) THEN Raised("ValueError: padlen")
        ELSE Returned(filtered_signal)

\* the baseline correction of correct_ppg_signal
ShiftUp(x, min_ppg) ==
    IF min_ppg < 0 THEN [i \in DOMAIN x |-> x[i] - min_ppg] ELSE x

\* correct_ppg_signal dividing by the maximum instead of the range
correct_ppg_signal_by_max(ppg_signal) ==
    LET min_ppg == SeqMin(ppg_signal.num)
        shifted == ShiftUp(ppg_signal.num, min_ppg)
    IN  IF SeqMax(shifted) = 0
        THEN [num |-> [i \in DOMAIN shifted |-> 0], den |-> 1]
        ELSE [num |-> shifted, den |-> SeqMax(shifted)]

\* correct_ppg_signal(ppg_signal)
correct_ppg_signal(ppg_signal) ==
    LET min_ppg == SeqMin(ppg_signal.num)
        shifted == ShiftUp(ppg_signal.num, min_ppg)
        signal_range == SeqMax(shifted) - SeqMin(shifted)
    IN  IF signal_range = 0
        THEN [num |-> [i \in DOMAIN shifted |-> 0], den |-> 1]
        ELSE [num |-> [i \in DOMAIN shifted |-> shifted[i] - SeqMin(shifted)],
              den |-> signal_range]

\* ------------------------------------------------------------ inputs
\* A sample sequence in tenths
Sig(num) == [num |-> num, den |-> 10]

SeqsUpTo(S, n) == UNION {[1..k -> S] : k \in 1..n}

\* every sequence of 1..MaxLen samples over -0.5, 0, 0.3, 1.0
FreeSignals == {Sig(s) : s \in SeqsUpTo({-5, 0, 3, 10}, MaxLen)}

\* a pulse train: a rest sample, then per beat one sample of height h
\* followed by gap rest samples
RECURSIVE Train(_, _)
Train(rest, beats) ==
    IF beats = <<>> THEN <<>>
    ELSE <<Head(beats)[1]>> \o [i \in 1..Head(beats)[2] |-> rest]
         \o Train(rest, Tail(beats))

BeatSignals ==
    {Sig(<<rest>> \o Train(rest, beats)) :
        rest \in {0, 9}, beats \in SeqsUpTo({3, 10} \X {1, 2}, MaxBeats)}

Signals == FreeSignals \cup BeatSignals

SamplingRates == {1, 2, 5, 8}

\* <<threshold_heart_rate, threshold_waveform>>: the defaults 0.15 and 0.2,
\* then 0.1 and 0.1, then 0.05 and 0.3
Thresholds == {<<DefaultThresholdHeartRate, DefaultThresholdWaveform>>,
               <<<<1, 10>>, <<1, 10>>>>,
               <<<<1, 20>>, <<3, 10>>>>}

\* what a band-pass filtfilt may return for an input of n samples: a flat
\* signal, or a slow wave with a crest near each end
BandOutputs(n) == {Sig([i \in 1..n |-> 0]),
                   Sig([i \in 1..n |-> IF i = 2 \/ i = n - 1 THEN 1 ELSE 0])}

\* what the low-pass filtfilt may return for an input of n samples: a
\* constant signal, an irregular pulse train below zero, a regular one
LowOutputs(n) == {Sig([i \in 1..n |-> 7]),
                  Sig([i \in 1..n |-> IF i \in {2, 4, 8} THEN 7 ELSE -3]),
                  Sig([i \in 1..n |-> IF i % 4 = 2 THEN 4 ELSE 2])}

\* the recordings of the data folder: [signal, sampling_rate]
RecordingA == Sig([i \in 1..19 |-> IF i % 3 = 2 THEN 10 ELSE 0])
RecordingB == Sig([i \in 1..19 |-> 3])
RecordingShort == Sig(<<0, 10, 0>>)

Recordings ==
    {[signal |-> RecordingA, sampling_rate |-> r] : r \in {1, 2, 5, 6}}
    \cup {[signal |-> RecordingB, sampling_rate |-> 5],
          [signal |-> RecordingShort, sampling_rate |-> 5]}

\* ------------------------------------------------------------ state
VARIABLES
    ppg_signal,       \* the signal a function is called on
    sampling_rate,    \* its sampling rate
    fn,               \* the function called, "none" before the call
    thr,              \* the thresholds detect_arrhythmia was called with
    result,           \* what the call returned or raised
    locals,           \* peaks and rr_intervals inside detect_arrhythmia
    datasets,         \* main.py: the recordings of dataset_files, in order
    idx,              \* main.py: position of the loop in dataset_files
    pc,               \* main.py: the statement of the loop body to run next
    low_memo,         \* values the low-pass filtfilt has returned so far
    band_memo,        \* values the band-pass filtfilt has returned so far
    drv,              \* main.py: the module-level variables of the loop body
    results           \* main.py: the result tables written, one per dataset

fvars == <<ppg_signal, sampling_rate, fn, thr, result, locals>>
dvars == <<datasets, idx, pc, low_memo, band_memo, drv, results>>
vars == <<ppg_signal, sampling_rate, fn, thr, result, locals,
          datasets, idx, pc, low_memo, band_memo, drv, results>>

NoLocals == [ran |-> FALSE, peaks |-> <<>>, rr_intervals |-> <<>>]
Unbound == <<>>
EmptyMemo == [k \in {} |-> Unbound]

\* module-level names of main.py before the first iteration binds them
DrvInit == [data |-> Unbound, sampling_rate |-> 0, ppg_signal |-> Unbound,
            corrected_ppg_signal |-> Unbound, features |-> Unbound,
            verdict |-> Unbound, mean_heart_rate |-> Unbound,
            mean_respiratory_rate |-> Unbound,
            mean_systolic_amplitude |-> Unbound]

\* ------------------------------------------------------------ calls of the library functions
FInit ==
    /\ ppg_signal \in Signals
    /\ sampling_rate \in SamplingRates
    /\ fn = "none"
    /\ thr = <<DefaultThresholdHeartRate, DefaultThresholdWaveform>>
    /\ result = Returned(None)
    /\ locals = NoLocals

DIdle ==
    /\ datasets = <<>>
    /\ idx = 1
    /\ pc = "idle"
    /\ low_memo = EmptyMemo
    /\ band_memo = EmptyMemo
    /\ drv = DrvInit
    /\ results = <<>>

Init == FInit /\ DIdle

CallCorrectPpgSignal ==
    /\ fn = "none"
    /\ fn' = "correct_ppg_signal"
    /\ result' = Returned(correct_ppg_signal(ppg_signal))
    /\ UNCHANGED <<ppg_signal, sampling_rate, thr, locals>>
    /\ UNCHANGED dvars

CallCalculateHeartRate ==
    /\ fn = "none"
    /\ fn' = "calculate_heart_rate"
    /\ result' = calculate_heart_rate(ppg_signal, sampling_rate)
    /\ UNCHANGED <<ppg_signal, sampling_rate, thr, locals>>
    /\ UNCHANGED dvars

CallExtractFeatures ==
    /\ fn = "none"
    /\ fn' = "extract_features"
    /\ \E respiratory_signal \in BandOutputs(Len(ppg_signal.num)) :
           result' = extract_features(ppg_signal, sampling_rate, respiratory_signal)
    /\ UNCHANGED <<ppg_signal, sampling_rate, thr, locals>>
    /\ UNCHANGED dvars

CallDetectArrhythmia ==
    /\ fn = "none"
    /\ fn' = "detect_arrhythmia"
    /\ \E t \in Thresholds :
           /\ thr' = t
           /\ result' = detect_arrhythmia(ppg_signal, sampling_rate, t[1], t[2])
    /\ locals' = LET r == calculate_rr_intervals(ppg_signal, sampling_rate,
                                               HeightThreshold, MinDistanceFactor)
                 IN  IF r.ok THEN [ran |-> TRUE, peaks |-> r.val.peaks,
                                   rr_intervals |-> r.val.rr_intervals]
                     ELSE NoLocals
    /\ UNCHANGED <<ppg_signal, sampling_rate>>
    /\ UNCHANGED dvars

Next ==
    \/ CallCorrectPpgSignal
    \/ CallCalculateHeartRate
    \/ CallExtractFeatures
    \/ CallDetectArrhythmia

Spec == Init /\ [][Next]_vars

\* ------------------------------------------------------------ main.py
FIdle ==
    /\ ppg_signal = Sig(<<0>>)
    /\ sampling_rate = 1
    /\ fn = "idle"
    /\ thr = <<DefaultThresholdHeartRate, DefaultThresholdWaveform>>
    /\ result = Returned(None)
    /\ locals = NoLocals

DInit ==
    /\ datasets \in SeqsUpTo(Recordings, MaxDatasets)
    /\ idx = 1
    /\ pc = "load"
    /\ low_memo = EmptyMemo
    /\ band_memo = EmptyMemo
    /\ drv = DrvInit
    /\ results = <<>>

DriverInit == FIdle /\ DInit

\* filtfilt is a function: asked again for the same input it returns the
\* same output; its value for a new input is any of the outputs
FilterChoices(memo, key, outputs) ==
    IF key \in DOMAIN memo THEN {memo[key]} ELSE outputs

\* every iteration loading the first file again
CurrentDatasetFirst(files, i) == files[1]

\* line 21 and 27: the dataset the iteration loads
CurrentDataset(files, i) == files[i]

\* the loop header: the next file, or the end of dataset_files
Load ==
    /\ pc = "load"
    /\ IF idx <= Len(datasets)
       THEN /\ drv' = [drv EXCEPT !.data = CurrentDataset(datasets, idx).signal,
                                  !.sampling_rate = CurrentDataset(datasets, idx).sampling_rate]
            /\ pc' = "preprocess"
       ELSE /\ pc' = "done"
            /\ drv' = drv
    /\ UNCHANGED <<datasets, idx, low_memo, band_memo, results>>
    /\ UNCHANGED fvars

\* line 30
Preprocess ==
    /\ pc = "preprocess"
    /\ LET key == [signal |-> drv.data, sampling_rate |-> drv.sampling_rate]
       IN  \E filtered_signal \in
                  FilterChoices(low_memo, key, LowOutputs(Len(drv.data.num))) :
               LET r == preprocess_signal(drv.data, drv.sampling_rate, filtered_signal)
               IN  IF r.ok
                   THEN /\ drv' = [drv EXCEPT !.ppg_signal = r.val]
                        /\ low_memo' = (key :> filtered_signal) @@ low_memo
                        /\ pc' = "correct"
                   ELSE /\ pc' = "crashed"
                        /\ UNCHANGED <<drv, low_memo>>
    /\ UNCHANGED <<datasets, idx, band_memo, results>>
    /\ UNCHANGED fvars

\* line 33
Correct ==
    /\ pc = "correct"
    /\ drv' = [drv EXCEPT !.corrected_ppg_signal = correct_ppg_signal(drv.ppg_signal)]
    /\ pc' = "extract"
    /\ UNCHANGED <<datasets, idx, low_memo, band_memo, results>>
    /\ UNCHANGED fvars

\* the analysis run on the filtered signal, not on the normalized one
AnalysisInputFiltered(d) == d.ppg_signal

\* lines 36 to 44: the signal the analysis is run on
AnalysisInput(d) == d.corrected_ppg_signal

\* line 36
Extract ==
    /\ pc = "extract"
    /\ LET key == [signal |-> AnalysisInput(drv),
                   sampling_rate |-> drv.sampling_rate]
       IN  \E respiratory_signal \in
                  FilterChoices(band_memo, key,
                                BandOutputs(Len(AnalysisInput(drv).num))) :
               LET r == extract_features(AnalysisInput(drv), drv.sampling_rate,
                                        respiratory_signal)
               IN  IF r.ok
                   THEN /\ drv' = [drv EXCEPT !.features = r.val]
                        /\ band_memo' = (key :> respiratory_signal) @@ band_memo
                        /\ pc' = "detect"
                   ELSE /\ pc' = "crashed"
                        /\ UNCHANGED <<drv, band_memo>>
    /\ UNCHANGED <<datasets, idx, low_memo, results>>
    /\ UNCHANGED fvars

\* line 39
Detect ==
    /\ pc = "detect"
    /\ LET r == detect_arrhythmia(AnalysisInput(drv), drv.sampling_rate,
                                 DefaultThresholdHeartRate, DefaultThresholdWaveform)
       IN  IF r.ok
           THEN /\ drv' = [drv EXCEPT !.verdict = r.val]
                /\ pc' = "means"
           ELSE /\ pc' = "crashed"
                /\ drv' = drv
    /\ UNCHANGED <<datasets, idx, low_memo, band_memo, results>>
    /\ UNCHANGED fvars

\* lines 42 to 44
Means ==
    /\ pc = "means"
    /\ LET key == [signal |-> AnalysisInput(drv),
                   sampling_rate |-> drv.sampling_rate]
       IN  \E respiratory_signal \in
                  FilterChoices(band_memo, key,
                                BandOutputs(Len(AnalysisInput(drv).num))) :
               LET h == calculate_heart_rate(AnalysisInput(drv), drv.sampling_rate)
                   r == calculate_respiratory_rate(AnalysisInput(drv),
                                                 drv.sampling_rate, respiratory_signal)
               IN  IF h.ok /\ r.ok
                   THEN /\ drv' = [drv EXCEPT
                                !.mean_heart_rate = h.val,
                                !.mean_respiratory_rate = r.val,
                                !.mean_systolic_amplitude =
                                    calculate_systolic_amplitude(AnalysisInput(drv))]
                        /\ band_memo' = (key :> respiratory_signal) @@ band_memo
                        /\ pc' = "save"
                   ELSE /\ pc' = "crashed"
                        /\ UNCHANGED <<drv, band_memo>>
    /\ UNCHANGED <<datasets, idx, low_memo, results>>
    /\ UNCHANGED fvars

\* lines 56 to 59: the 'Value' column of result_data
ResultData(d) ==
    [HeartRate |-> d.features.HeartRate,
     RespiratoryRate |-> d.features.RespiratoryRate,
     SystolicAmplitude |-> d.features.SystolicAmplitude,
     SNR |-> d.features.SNR,
     Kurtosis |-> d.features.Kurtosis,
     Skewness |-> d.features.Skewness,
     IrregularHeartRate |-> d.verdict[1],
     AbnormalWaveform |-> d.verdict[2],
     MeanHeartRate |-> d.mean_heart_rate,
     MeanRespiratoryRate |-> d.mean_respiratory_rate,
     MeanSystolicAmplitude |-> d.mean_systolic_amplitude,
     ArrhythmiaDetected |-> IF d.verdict[1] THEN "Yes" ELSE "No",
     SegmentTimeStart |-> IF d.verdict[1] THEN d.verdict[3] ELSE None,
     SegmentTimeEnd |-> IF d.verdict[1] THEN d.verdict[4] ELSE None]

\* lines 56 to 78: the table is written (both columns always have 14
\* entries) and the loop goes on to the next file; the two plots read
\* corrected_ppg_signal and features and change nothing
Save ==
    /\ pc = "save"
    /\ results' = Append(results, ResultData(drv))
    /\ idx' = idx + 1
    /\ pc' = "load"
    /\ UNCHANGED <<datasets, low_memo, band_memo, drv>>
    /\ UNCHANGED fvars

DriverNext ==
    \/ Load
    \/ Preprocess
    \/ Correct
    \/ Extract
    \/ Detect
    \/ Means
    \/ Save

DriverSpec == DriverInit /\ [][DriverNext]_vars

\* ------------------------------------------------------------ properties
Detected == fn = "detect_arrhythmia" /\ result.ok

AllEqual(s) == \A i, j \in DOMAIN s : s[i] = s[j]

\* the unconstrained maxima and minima of x, paired by position: some pair
\* differs by more than t
PairExceeds(x, t) ==
    LET P == local_maxima_1d(x.num)
        V == local_maxima_1d([i \in DOMAIN x.num |-> -x.num[i]])
    IN  \E i \in DOMAIN P \cap DOMAIN V :
            (x.num[P[i] + 1] - x.num[V[i] + 1]) * t[2] > t[1] * x.den

\* n * sum(d^2) - sum(d)^2 for the differences d of the peak indices p: the
\* variance of the RR intervals times n^2 * sampling_rate^2
Spread(p) ==
    LET d == [i \in 1..(Len(p) - 1) |-> p[i + 1] - p[i]]
        S1 == SumSeq(d)
        S2 == SumSeq([i \in DOMAIN d |-> d[i] * d[i]])
    IN  Len(d) * S2 - S1 * S1

\* the squared threshold t^2 on the scale of Spread(p)
SpreadBound(p, t, r) == t[1] * t[1] * (Len(p) - 1) * (Len(p) - 1) * r * r

\* C1: whenever the peak pass with height 0.5 and minimum distance
\* 0.4 * sampling_rate accepts fewer than 2 peaks, detect_arrhythmia returns
\* (False, False, None, None) and raises nothing
C1_DefaultsOnFewPeaks ==
    (/\ fn = "detect_arrhythmia"
     /\ Len(find_peaks(ppg_signal, HeightThreshold, <<2 * sampling_rate, 5>>)) < 2)
    => (result.ok /\ result.val = <<FALSE, FALSE, None, None>>)

\* C2: in a returned verdict start and end are set exactly when the
\* irregular flag is true and 2 peaks were accepted, to first / rate and
\* last / rate; otherwise both are None
C2_EpisodeBoundsIffIrregular ==
    Detected =>
        LET v == result.val
            p == locals.peaks
        IN  IF v[1] /\ Len(p) >= 2
            THEN /\ v[3] # None
                 /\ v[4] # None
                 /\ RatEq(v[3], <<p[1], sampling_rate>>)
                 /\ RatEq(v[4], <<p[Len(p)], sampling_rate>>)
            ELSE v[3] = None /\ v[4] = None

C2_EpisodeReported ==
    /\ Detected
    /\ result.val[1]
    /\ result.val[3] # None
    /\ result.val[3] # result.val[4]

\* C3 as claimed: for every signal the abnormal flag is true exactly when
\* some positional pair of maximum and minimum differs by more than the
\* waveform threshold
C3_AbnormalIffPairExceeds ==
    Detected => (result.val[2] <=> PairExceeds(ppg_signal, thr[2]))

\* C3 as amended: the abnormal flag is true exactly when 2 peaks were
\* accepted and some positional pair differs by more than the threshold
C3_AbnormalIffPairExceedsAndTwoPeaks ==
    Detected =>
        (result.val[2] <=> (Len(locals.peaks) >= 2 /\ PairExceeds(ppg_signal, thr[2])))

C3_IrregularNotAbnormal ==
    /\ Detected
    /\ result.val[1]
    /\ ~result.val[2]
    /\ local_maxima_1d(ppg_signal.num) # <<>>
    /\ local_maxima_1d(Negate(ppg_signal).num) # <<>>

\* C4: with RR intervals, the irregular flag is true exactly when their
\* standard deviation is strictly above the threshold; equally spaced peaks
\* are not flagged under the default 0.15 and get no episode bounds
C4_IrregularIffStdExceeds ==
    (Detected /\ Len(locals.rr_intervals) > 0) =>
        LET p == locals.peaks
            v == result.val
        IN  /\ v[1] <=> (Spread(p) * thr[1][2] * thr[1][2]
                             > SpreadBound(p, thr[1], sampling_rate))
            /\ (AllEqual(locals.rr_intervals) /\ thr[1] = DefaultThresholdHeartRate)
                   => (~v[1] /\ v[3] = None /\ v[4] = None)

C4_StdEqualsThreshold ==
    /\ Detected
    /\ Len(locals.rr_intervals) > 0
    /\ Spread(locals.peaks) * thr[1][2] * thr[1][2]
           = SpreadBound(locals.peaks, thr[1], sampling_rate)
    /\ ~result.val[1]

\* C5: on a non-empty signal and a sampling rate above 1 (cutoffs below
\* Nyquist) extract_features and detect_arrhythmia return and never raise
C5_NoException ==
    (fn \in {"extract_features", "detect_arrhythmia"} /\ sampling_rate > 1)
        => result.ok

\* C6: the heart rate is None with no per-beat rates exactly when the peak
\* pass (distance 0.6 * sampling_rate, no height) finds fewer than 2 peaks;
\* otherwise there is one rate 60 / RR per interval and the heart rate is
\* their arithmetic mean
C6_HeartRateIsMeanOfBeatRates ==
    LET p == find_peaks(ppg_signal, NoHeight, <<3 * sampling_rate, 5>>)
        rates == [i \in 1..(Len(p) - 1) |->
                     Reduce(60 * sampling_rate, p[i + 1] - p[i])]
    IN  /\ (fn = "calculate_heart_rate" /\ result.ok) =>
               LET hr == result.val.heart_rates
                   mean == result.val.mean_heart_rate
               IN  IF Len(p) < 2 THEN mean = None /\ hr = <<>>
                   ELSE /\ mean # None
                        /\ Len(hr) = Len(p) - 1
                        /\ \A i \in DOMAIN hr :
                               hr[i][1] * (p[i + 1] - p[i]) = 60 * sampling_rate * hr[i][2]
                        /\ Reduce(mean[1] * Len(hr), mean[2]) = RatSum(hr)
        /\ (fn = "extract_features" /\ result.ok) =>
               LET mean == result.val.HeartRate
               IN  IF Len(p) < 2 THEN mean = None
                   ELSE /\ mean # None
                        /\ Reduce(mean[1] * Len(rates), mean[2]) = RatSum(rates)

C6_UnequalBeatRates ==
    /\ fn = "calculate_heart_rate"
    /\ result.ok
    /\ Len(result.val.heart_rates) >= 2
    /\ result.val.heart_rates[1] # result.val.heart_rates[2]

\* C7: correct_ppg_signal returns all zeros of the same length for a
\* constant signal, and (x - min) / (max - min) for any other, with
\* minimum 0 and maximum 1
C7_NormalizedOrZero ==
    (fn = "correct_ppg_signal") =>
        LET x == ppg_signal.num
            out == result.val
            lo == SeqMin(x)
            hi == SeqMax(x)
        IN  /\ result.ok
            /\ out.den > 0
            /\ Len(out.num) = Len(x)
            /\ IF AllEqual(x)
               THEN \A i \in DOMAIN x : out.num[i] = 0
               ELSE /\ \A i \in DOMAIN x :
                           out.num[i] * (hi - lo) = (x[i] - lo) * out.den
                    /\ SeqMin(out.num) = 0
                    /\ SeqMax(out.num) = out.den

C7_ConstantNegative ==
    /\ fn = "correct_ppg_signal"
    /\ Len(ppg_signal.num) >= 2
    /\ \A i \in DOMAIN ppg_signal.num : ppg_signal.num[i] = -5
    /\ \A i \in DOMAIN result.val.num : result.val.num[i] = 0

\* C9 as claimed: the accepted peaks increase, are at least 0.5 high and any
\* two are at least 0.4 * sampling_rate samples apart
C9_PeaksSpacedByFactor ==
    (fn = "detect_arrhythmia" /\ locals.ran) =>
        LET p == locals.peaks
        IN  /\ \A i, j \in DOMAIN p : i < j => p[i] < p[j]
            /\ \A i \in DOMAIN p : 2 * ppg_signal.num[p[i] + 1] >= ppg_signal.den
            /\ \A i, j \in DOMAIN p : i < j => 5 * (p[j] - p[i]) >= 2 * sampling_rate

\* C9 as amended: the accepted peaks increase, are at least 0.5 high and any
\* two are at least int(0.4 * sampling_rate) samples apart; every RR interval
\* is the positive difference of two neighbours over the sampling rate
C9_PeaksSpacedByTruncatedFactor ==
    (fn = "detect_arrhythmia" /\ locals.ran) =>
        LET p == locals.peaks
            rr == locals.rr_intervals
        IN  /\ \A i, j \in DOMAIN p : i < j => p[i] < p[j]
            /\ \A i \in DOMAIN p : 2 * ppg_signal.num[p[i] + 1] >= ppg_signal.den
            /\ \A i, j \in DOMAIN p : i < j => 5 * (p[j] - p[i] + 1) > 2 * sampling_rate
            /\ Len(rr) = (IF Len(p) > 1 THEN Len(p) - 1 ELSE 0)
            /\ \A i \in DOMAIN rr :
                   /\ rr[i] = <<p[i + 1] - p[i], sampling_rate>>
                   /\ rr[i][1] > 0

C9_SpacingBelowFactor ==
    /\ fn = "detect_arrhythmia"
    /\ locals.ran
    /\ sampling_rate = 8
    /\ \E i \in DOMAIN locals.rr_intervals : locals.rr_intervals[i][1] = 3

\* ------------------------------------------------------------ properties of main.py
LowKey(rec) == [signal |-> rec.signal, sampling_rate |-> rec.sampling_rate]

BandKey(rec) ==
    [signal |-> correct_ppg_signal(low_memo[LowKey(rec)]),
     sampling_rate |-> rec.sampling_rate]

\* the result table of one recording, from that recording alone
OwnRow(rec) ==
    LET corrected == correct_ppg_signal(low_memo[LowKey(rec)])
        rate == rec.sampling_rate
        respiratory_signal == band_memo[BandKey(rec)]
    IN  ResultData(
            [features |-> extract_features(corrected, rate, respiratory_signal).val,
             verdict |-> detect_arrhythmia(corrected, rate, DefaultThresholdHeartRate,
                                          DefaultThresholdWaveform).val,
             mean_heart_rate |-> calculate_heart_rate(corrected, rate).val,
             mean_respiratory_rate |->
                 calculate_respiratory_rate(corrected, rate, respiratory_signal).val,
             mean_systolic_amplitude |-> calculate_systolic_amplitude(corrected)])

\* C8: the table written for a dataset is the one its own samples and
\* sampling rate give, whatever was processed before it
C8_RowDependsOnOwnDataset ==
    \A i \in DOMAIN results :
        /\ LowKey(datasets[i]) \in DOMAIN low_memo
        /\ BandKey(datasets[i]) \in DOMAIN band_memo
        /\ results[i] = OwnRow(datasets[i])

C8_EpisodeThenNone ==
    /\ Len(results) = 2
    /\ results[1].SegmentTimeStart # None
    /\ results[2].SegmentTimeStart = None
    /\ results[2].IrregularHeartRate = FALSE

====
